---- MODULE Spec2Model ----
(***************************************************************************)
(* Model of ipcgame.c: an orchestrator (main) creates a message queue, a   *)
(* binary semaphore and a shared-memory block, forks one watchdog and      *)
(* MAXCLIENTS clients.  Clients send MSGNR messages to the watchdog, the   *)
(* watchdog keeps the scores, publishes the frontrunner in shared memory   *)
(* and, once a winner exists, sends SIGUSR1 to the registered client pids. *)
(*                                                                         *)
(* Every process is a sequence of steps; one step is one system call       *)
(* together with the process-local computation that follows it.           *)
(* System calls on an IPC object fail exactly when the object has been     *)
(* removed (EIDRM / EINVAL); fork, shmat and sigaction are taken to        *)
(* succeed.  A pending SIGUSR1 is delivered before the target executes     *)
(* its next step.                                                          *)
(***************************************************************************)
EXTENDS Integers, Sequences, FiniteSets, TLC

\* ---------------------------------------------------------------- bounds
\* MAXCLIENTS (12 in the source) and MSGNR (100 in the source) are scaled
\* down: two clients, each sending two messages.  MaxQueue is the number of
\* messages WatchdogMQ holds before msgsnd blocks (the kernel's msg_qbytes
\* divided by the message size); like the kernel's, it is smaller than the
\* number of messages all clients send together.
MAXCLIENTS == 2
MSGNR == 2
MaxQueue == 1

\* MILESTONE is the step of the watchdog's "first to get to" lines (the 5 of
\* "scores[frontrunner] % 5" in the source), scaled down with MSGNR so that
\* several clients reach a multiple of it before one of them wins.
MILESTONE == 1

\* ------------------------------------------------------ program constants
SERVER == 1
LOCK == -1
UNLOCK == 1
MAXRUNS == MSGNR * MAXCLIENTS

\* ------------------------------------------------------------- processes
Clients == 0 .. (MAXCLIENTS - 1)
WD == MAXCLIENTS
MAIN == MAXCLIENTS + 1
Procs == 0 .. (MAXCLIENTS + 1)

\* getpid(): a process identifier is never 0
getpid(p) == p + 1

VARIABLES
    st,             \* per process: "unborn", "run", or how it ended
    mpc,            \* main: position
    mi,             \* main: loop index i of the fork loop
    reaped,         \* main: children reaped by wait()
    wpc,            \* watchdog: position
    wi,             \* watchdog: loop index i of the kill loop
    scores,         \* watchdog: int scores[MAXCLIENTS]
    frontrunner,    \* watchdog: local frontrunner
    winner,         \* watchdog: local winner
    client_nr,      \* watchdog: sender of the last message, -1 before it
    milestones,     \* watchdog: the "first to get to" lines printed so far
    cpc,            \* client: position
    ci,             \* client: loop index i of the send loop
    c_frontrunner,  \* client: local frontrunner
    c_actual,       \* client: local actual_frontrunner
    sent,           \* client: msgsnd calls that returned success
    game,           \* shared memory SMgame
    shm_exists,     \* SMgame not yet removed
    mq,             \* messages in WatchdogMQ
    mq_exists,      \* WatchdogMQ not yet removed
    semval,         \* value of the semaphore SEMaccess
    sem_exists,     \* SEMaccess not yet removed
    semadj,         \* kernel's SEM_UNDO adjustment per process
    semret,         \* return value of the process's last sem_operation, 0 before it
    sigpending      \* processes with SIGUSR1 pending

vars == << st, mpc, mi, reaped, wpc, wi, scores, frontrunner, winner, client_nr, milestones,
           cpc, ci, c_frontrunner, c_actual, sent, game, shm_exists, mq, mq_exists,
           semval, sem_exists, semadj, semret, sigpending >>

mainVars == << mpc, mi, reaped >>
wdVars == << wpc, wi, scores, frontrunner, winner, client_nr, milestones >>
clVars == << cpc, ci, c_frontrunner, c_actual, sent >>
semVars == << semval, sem_exists, semadj, semret >>
mqVars == << mq, mq_exists >>

\* ------------------------------------------------------------ conversions
\* snprintf(buf, "%d", nr) for nr >= 0: the decimal digits, most significant first
RECURSIVE IntToStr(_)
IntToStr(n) == IF n < 10 THEN << n >> ELSE Append(IntToStr(n \div 10), n % 10)

\* sscanf(data, "%d", &client_nr): the value of a digit string
RECURSIVE StrToInt(_)
StrToInt(s) ==
    IF Len(s) = 0 THEN 0
    ELSE 10 * StrToInt(SubSeq(s, 1, Len(s) - 1)) + s[Len(s)]

\* message_t as client_code prepares it
message(nr) == [msg_type |-> SERVER, data |-> IntToStr(nr)]

\* ----------------------------------------------------- process life cycle
\* A process is "unborn" before its fork and "run" until it ends: "exited"
\* by exit(EXIT_SUCCESS) or return from main, "failed" by exit(EXIT_FAILURE),
\* "sigexit" by the exit of SIGHandler, "killed" by the default action of
\* SIGUSR1.  The position of a process that has ended is where it ended.
EndStates == {"exited", "failed", "sigexit", "killed"}

Alive(p) == st[p] = "run"

Ended(p) == st[p] \in EndStates

\* the positions of a client at which SIGHandler is installed
ClientHandler == {"send", "lock", "read", "unlock", "ret"}

\* a process runs its program only while no signal is pending for it
Runs(p) == Alive(p) /\ p \notin sigpending

\* ------------------------------------------------------------- semaphore
\* sem_operation with sem_flg = 0: the kernel keeps no undo adjustment
sem_operation_noundo(p, op) ==
    /\ IF sem_exists
       THEN /\ semval + op >= 0
            /\ semval' = semval + op
            /\ semret' = [semret EXCEPT ![p] = 1]
            /\ UNCHANGED semadj
       ELSE /\ semret' = [semret EXCEPT ![p] = -1]
            /\ UNCHANGED << semval, semadj >>
    /\ UNCHANGED sem_exists

\* sem_operation(op): one semop with SEM_UNDO on SEMaccess.  semop blocks
\* while the value would become negative, fails once the set is removed;
\* the helper then returns -1 and the caller goes on.
sem_operation(p, op) ==
    /\ IF sem_exists
       THEN /\ semval + op >= 0
            /\ semval' = semval + op
            /\ semadj' = [semadj EXCEPT ![p] = @ - op]
            /\ semret' = [semret EXCEPT ![p] = 1]
       ELSE /\ semret' = [semret EXCEPT ![p] = -1]
            /\ UNCHANGED << semval, semadj >>
    /\ UNCHANGED sem_exists

\* process exit (exit(), return from main, or death by signal): the kernel
\* applies the process's SEM_UNDO adjustment to a semaphore that still exists
exit_undo(p) ==
    /\ semval' = IF sem_exists THEN semval + semadj[p] ELSE semval
    /\ semadj' = [semadj EXCEPT ![p] = 0]
    /\ UNCHANGED << sem_exists, semret >>

\* ------------------------------------------------------------------ Init
\* The state after msgget, semget + SETVAL 1 and shmget + shmat: a new
\* shared-memory segment is zero-filled.
Init ==
    /\ st = [p \in Procs |-> IF p = MAIN THEN "run" ELSE "unborn"]
    /\ mpc = "init"
    /\ mi = 0
    /\ reaped = {}
    /\ wpc = "rcv"
    /\ wi = 0
    /\ scores = [c \in Clients |-> 0]
    /\ frontrunner = 0
    /\ winner = -1
    /\ client_nr = -1
    /\ milestones = {}
    /\ cpc = [c \in Clients |-> "reg_lock"]
    /\ ci = [c \in Clients |-> 0]
    /\ c_frontrunner = [c \in Clients |-> 0]
    /\ c_actual = [c \in Clients |-> 0]
    /\ sent = [c \in Clients |-> 0]
    /\ game = [frontrunner |-> 0, runs_done |-> 0,
               clientpids |-> [c \in Clients |-> 0]]
    /\ shm_exists = TRUE
    /\ mq = << >>
    /\ mq_exists = TRUE
    /\ semval = 1
    /\ sem_exists = TRUE
    /\ semadj = [p \in Procs |-> 0]
    /\ semret = [p \in Procs |-> 0]
    /\ sigpending = {}

\* ------------------------------------------------------------------ main
\* game_main->runs_done = 0, outside any critical section
MainInit ==
    /\ mpc = "init" /\ Runs(MAIN)
    /\ game' = [game EXCEPT !.runs_done = 0]
    /\ mpc' = "fork_wd"
    /\ UNCHANGED << st, mi, reaped, wdVars, clVars, shm_exists, mqVars, semVars,
                    sigpending >>

\* fork of the watchdog
MainForkWatchdog ==
    /\ mpc = "fork_wd" /\ Runs(MAIN)
    /\ st' = [st EXCEPT ![WD] = "run"]
    /\ mpc' = "fork"
    /\ UNCHANGED << mi, reaped, wpc, wi, scores, frontrunner, winner, client_nr, milestones,
                    clVars, game, shm_exists, mqVars, semVars, sigpending >>

\* one iteration of the fork loop; after the last one main sleeps and waits
MainForkClient ==
    /\ mpc = "fork" /\ Runs(MAIN)
    /\ mi < MAXCLIENTS
    /\ st' = [st EXCEPT ![mi] = "run"]
    /\ mi' = mi + 1
    /\ mpc' = IF mi + 1 < MAXCLIENTS THEN "fork" ELSE "wait"
    /\ UNCHANGED << reaped, wdVars, clVars, game, shm_exists, mqVars,
                    semVars, sigpending >>

\* sleep(2); while (wait(NULL) < 0);  -- wait returns the pid of ONE ended
\* child, which ends the loop
MainWait ==
    /\ mpc = "wait" /\ Runs(MAIN)
    /\ \E p \in (Clients \cup {WD}) \ reaped :
          /\ Ended(p)
          /\ reaped' = reaped \cup {p}
    /\ mpc' = "rm_mq"
    /\ UNCHANGED << st, mi, wdVars, clVars, game, shm_exists, mqVars, semVars,
                    sigpending >>

\* msgctl(WatchdogMQ, IPC_RMID): the queue and its messages are gone
MainRemoveMQ ==
    /\ mpc = "rm_mq" /\ Runs(MAIN)
    /\ mq_exists' = FALSE
    /\ mq' = << >>
    /\ mpc' = "rm_sem"
    /\ UNCHANGED << st, mi, reaped, wdVars, clVars, game, shm_exists, semVars,
                    sigpending >>

\* semctl(SEMaccess, 0, IPC_RMID)
MainRemoveSem ==
    /\ mpc = "rm_sem" /\ Runs(MAIN)
    /\ sem_exists' = FALSE
    /\ mpc' = "rm_shm"
    /\ UNCHANGED << st, mi, reaped, wdVars, clVars, game, shm_exists, mqVars,
                    semval, semadj, semret, sigpending >>

\* shmctl(SMgame, IPC_RMID): the segment is marked for destruction and stays
\* mapped in the processes attached to it; then main returns
MainRemoveShm ==
    /\ mpc = "rm_shm" /\ Runs(MAIN)
    /\ shm_exists' = FALSE
    /\ mpc' = "ret"
    /\ st' = [st EXCEPT ![MAIN] = "exited"]
    /\ exit_undo(MAIN)
    /\ UNCHANGED << mi, reaped, wdVars, clVars, game, mqVars, sigpending >>

\* -------------------------------------------------------------- watchdog
\* the scan "check who is frontrunner atm": frontrunner_score starts at 0,
\* index i replaces the frontrunner when scores[i] > frontrunner_score
RECURSIVE scan_frontrunner(_, _, _, _)
scan_frontrunner(sc, i, frontrunner_score, fr) ==
    IF i = MAXCLIENTS THEN fr
    ELSE IF sc[i] > frontrunner_score
         THEN scan_frontrunner(sc, i + 1, sc[i], i)
         ELSE scan_frontrunner(sc, i + 1, frontrunner_score, fr)

\* the line "[watchdog] client %d first to get to %d points", printed when
\* the frontrunner's score is a multiple of MILESTONE and the sender is the
\* frontrunner; the set is empty when nothing is printed
milestone_event(sc, fr, nr) ==
    IF sc[fr] % MILESTONE = 0 /\ nr = fr
    THEN {[client |-> nr, points |-> sc[nr]]}
    ELSE {}

\* decide_winner with the target missed by one
decide_winner_early(sc, fr, nr, w) ==
    IF sc[fr] = MSGNR - 1 /\ nr = fr THEN fr ELSE w

\* decide_winner with a target no score reaches
decide_winner_late(sc, fr, nr, w) ==
    IF sc[fr] > MSGNR /\ nr = fr THEN fr ELSE w

\* the value of winner after the test of the winning condition
decide_winner(sc, fr, nr, w) ==
    IF sc[fr] = MSGNR /\ nr = fr THEN fr ELSE w

\* loop_again without the test of winner
loop_again_nowinner(w, runs_done) == runs_done < MAXRUNS

\* the condition of the do-while loop
loop_again(w, runs_done) == w = -1 /\ runs_done < MAXRUNS

\* msgrcv of the oldest SERVER message, sscanf of its data, the score update,
\* the frontrunner scan and the winner test; msgrcv on a removed queue fails
\* and the watchdog exits with failure
WdReceive ==
    /\ wpc = "rcv" /\ Runs(WD)
    /\ IF mq_exists
       THEN /\ mq # << >>
            /\ Head(mq).msg_type = SERVER
            /\ LET nr == StrToInt(Head(mq).data)
                   sc == [scores EXCEPT ![nr] = @ + 1]
                   fr == scan_frontrunner(sc, 0, 0, frontrunner)
               IN  /\ client_nr' = nr
                   /\ scores' = sc
                   /\ frontrunner' = fr
                   /\ milestones' = milestones \cup milestone_event(sc, fr, nr)
                   /\ winner' = decide_winner(sc, fr, nr, winner)
            /\ mq' = Tail(mq)
            /\ wpc' = "lock"
            /\ UNCHANGED << st, semVars >>
       ELSE /\ st' = [st EXCEPT ![WD] = "failed"]
            /\ exit_undo(WD)
            /\ UNCHANGED << wpc, scores, frontrunner, winner, client_nr, milestones, mq >>
    /\ UNCHANGED << mainVars, wi, clVars, game, shm_exists, mq_exists, sigpending >>

\* sem_operation(LOCK); the return value is not looked at
WdLock ==
    /\ wpc = "lock" /\ Runs(WD)
    /\ sem_operation(WD, LOCK)
    /\ wpc' = "wr_front"
    /\ UNCHANGED << st, mainVars, wi, scores, frontrunner, winner, client_nr, milestones,
                    clVars, game, shm_exists, mqVars, sigpending >>

\* WdWriteFrontrunner publishing the sender of the last message
WdWriteFrontrunner_sender ==
    /\ wpc = "wr_front" /\ Runs(WD)
    /\ game' = [game EXCEPT !.frontrunner = client_nr]
    /\ wpc' = "wr_runs"
    /\ UNCHANGED << st, mainVars, wi, scores, frontrunner, winner, client_nr, milestones,
                    clVars, shm_exists, mqVars, semVars, sigpending >>

\* watchdog_client->frontrunner = frontrunner
WdWriteFrontrunner ==
    /\ wpc = "wr_front" /\ Runs(WD)
    /\ game' = [game EXCEPT !.frontrunner = frontrunner]
    /\ wpc' = "wr_runs"
    /\ UNCHANGED << st, mainVars, wi, scores, frontrunner, winner, client_nr, milestones,
                    clVars, shm_exists, mqVars, semVars, sigpending >>

\* WdWriteRunsDone counting a message twice
WdWriteRunsDone_twice ==
    /\ wpc = "wr_runs" /\ Runs(WD)
    /\ game' = [game EXCEPT !.runs_done = @ + 2]
    /\ wpc' = "unlock"
    /\ UNCHANGED << st, mainVars, wi, scores, frontrunner, winner, client_nr, milestones,
                    clVars, shm_exists, mqVars, semVars, sigpending >>

\* watchdog_client->runs_done++
WdWriteRunsDone ==
    /\ wpc = "wr_runs" /\ Runs(WD)
    /\ game' = [game EXCEPT !.runs_done = @ + 1]
    /\ wpc' = "unlock"
    /\ UNCHANGED << st, mainVars, wi, scores, frontrunner, winner, client_nr, milestones,
                    clVars, shm_exists, mqVars, semVars, sigpending >>

\* sem_operation(UNLOCK)
WdUnlock ==
    /\ wpc = "unlock" /\ Runs(WD)
    /\ sem_operation(WD, UNLOCK)
    /\ wpc' = "cond"
    /\ UNCHANGED << st, mainVars, wi, scores, frontrunner, winner, client_nr, milestones,
                    clVars, game, shm_exists, mqVars, sigpending >>

\* while (winner == -1 && watchdog_client->runs_done < MAXRUNS)
WdLoopCond ==
    /\ wpc = "cond" /\ Runs(WD)
    /\ wpc' = IF loop_again(winner, game.runs_done) THEN "rcv" ELSE "kill"
    /\ UNCHANGED << st, mainVars, wi, scores, frontrunner, winner, client_nr, milestones,
                    clVars, game, shm_exists, mqVars, semVars, sigpending >>

\* kill(pid, SIGUSR1): pid 0 addresses every process of the caller's process
\* group, another pid the process that has it; a process that has ended
\* takes no signal
kill_targets(pid) ==
    IF pid = 0 THEN {p \in Procs : Alive(p)}
    ELSE {p \in Procs : Alive(p) /\ getpid(p) = pid}

\* one iteration of the kill loop
WdKill ==
    /\ wpc = "kill" /\ Runs(WD)
    /\ wi < MAXCLIENTS
    /\ sigpending' = sigpending \cup kill_targets(game.clientpids[wi])
    /\ wi' = wi + 1
    /\ wpc' = IF wi + 1 < MAXCLIENTS THEN "kill" ELSE "ret"
    /\ UNCHANGED << st, mainVars, scores, frontrunner, winner, client_nr, milestones, clVars,
                    game, shm_exists, mqVars, semVars >>

\* return from watchdog_code, exit(EXIT_SUCCESS)
WdExit ==
    /\ wpc = "ret" /\ Runs(WD)
    /\ st' = [st EXCEPT ![WD] = "exited"]
    /\ exit_undo(WD)
    /\ UNCHANGED << mainVars, wpc, wi, scores, frontrunner, winner, client_nr, milestones,
                    clVars, game, shm_exists, mqVars, sigpending >>

\* --------------------------------------------------------------- clients
\* the end of one iteration of the send loop: i++, then the loop test
next_iteration(c) ==
    /\ ci' = [ci EXCEPT ![c] = @ + 1]
    /\ cpc' = [cpc EXCEPT ![c] = IF ci[c] + 1 < MSGNR THEN "send" ELSE "ret"]

\* in the forked child: sem_operation(LOCK)
ClRegLock(c) ==
    /\ cpc[c] = "reg_lock" /\ Runs(c)
    /\ sem_operation(c, LOCK)
    /\ cpc' = [cpc EXCEPT ![c] = "reg_write"]
    /\ UNCHANGED << st, mainVars, wdVars, ci, c_frontrunner, c_actual, sent, game,
                    shm_exists, mqVars, sigpending >>

\* game_main->clientpids[i] = getpid()
ClRegWrite(c) ==
    /\ cpc[c] = "reg_write" /\ Runs(c)
    /\ game' = [game EXCEPT !.clientpids[c] = getpid(c)]
    /\ cpc' = [cpc EXCEPT ![c] = "reg_unlock"]
    /\ UNCHANGED << st, mainVars, wdVars, ci, c_frontrunner, c_actual, sent, shm_exists,
                    mqVars, semVars, sigpending >>

\* sem_operation(UNLOCK), then random_sleep and the call of client_code
ClRegUnlock(c) ==
    /\ cpc[c] = "reg_unlock" /\ Runs(c)
    /\ sem_operation(c, UNLOCK)
    /\ cpc' = [cpc EXCEPT ![c] = "sigaction"]
    /\ UNCHANGED << st, mainVars, wdVars, ci, c_frontrunner, c_actual, sent, game,
                    shm_exists, mqVars, sigpending >>

\* sigaction(SIGUSR1, SIGHandler), shmat, the message is prepared, i = 0
ClSigaction(c) ==
    /\ cpc[c] = "sigaction" /\ Runs(c)
    /\ cpc' = [cpc EXCEPT ![c] = "send"]
    /\ UNCHANGED << st, mainVars, wdVars, ci, c_frontrunner, c_actual, sent, game,
                    shm_exists, mqVars, semVars, sigpending >>

\* ClSend without the else: a failed msgsnd goes on to the frontrunner read
ClSend_fallthrough(c) ==
    /\ cpc[c] = "send" /\ Runs(c)
    /\ IF mq_exists
       THEN /\ Len(mq) < MaxQueue
            /\ mq' = Append(mq, message(c))
            /\ sent' = [sent EXCEPT ![c] = @ + 1]
       ELSE UNCHANGED << mq, sent >>
    /\ cpc' = [cpc EXCEPT ![c] = "lock"]
    /\ UNCHANGED << st, mainVars, wdVars, ci, c_frontrunner, c_actual, game,
                    shm_exists, mq_exists, semVars, sigpending >>

\* random_sleep, msgsnd: blocks while the queue is full, fails on a removed
\* queue; a failed send ends the iteration
ClSend(c) ==
    /\ cpc[c] = "send" /\ Runs(c)
    /\ IF mq_exists
       THEN /\ Len(mq) < MaxQueue
            /\ mq' = Append(mq, message(c))
            /\ cpc' = [cpc EXCEPT ![c] = "lock"]
            /\ sent' = [sent EXCEPT ![c] = @ + 1]
            /\ UNCHANGED ci
       ELSE /\ next_iteration(c)
            /\ UNCHANGED << mq, sent >>
    /\ UNCHANGED << st, mainVars, wdVars, c_frontrunner, c_actual, game,
                    shm_exists, mq_exists, semVars, sigpending >>

\* sem_operation(LOCK) after a successful send
ClLock(c) ==
    /\ cpc[c] = "lock" /\ Runs(c)
    /\ sem_operation(c, LOCK)
    /\ cpc' = [cpc EXCEPT ![c] = "read"]
    /\ UNCHANGED << st, mainVars, wdVars, ci, c_frontrunner, c_actual, sent, game,
                    shm_exists, mqVars, sigpending >>

\* actual_frontrunner = game_main->frontrunner
ClRead(c) ==
    /\ cpc[c] = "read" /\ Runs(c)
    /\ c_actual' = [c_actual EXCEPT ![c] = game.frontrunner]
    /\ cpc' = [cpc EXCEPT ![c] = "unlock"]
    /\ UNCHANGED << st, mainVars, wdVars, ci, c_frontrunner, sent, game, shm_exists,
                    mqVars, semVars, sigpending >>

\* sem_operation(UNLOCK), the local frontrunner follows actual_frontrunner
ClUnlock(c) ==
    /\ cpc[c] = "unlock" /\ Runs(c)
    /\ sem_operation(c, UNLOCK)
    /\ c_frontrunner' = [c_frontrunner EXCEPT ![c] =
                            IF @ # c_actual[c] THEN c_actual[c] ELSE @]
    /\ next_iteration(c)
    /\ UNCHANGED << st, mainVars, wdVars, c_actual, sent, game, shm_exists, mqVars,
                    sigpending >>

\* the loop is over: return from client_code, exit(EXIT_SUCCESS)
ClExit(c) ==
    /\ cpc[c] = "ret" /\ Runs(c)
    /\ st' = [st EXCEPT ![c] = "exited"]
    /\ exit_undo(c)
    /\ UNCHANGED << mainVars, wdVars, cpc, ci, c_frontrunner, c_actual, sent, game,
                    shm_exists, mqVars, sigpending >>

\* --------------------------------------------------------------- signals
\* what SIGUSR1 does to a process: a client that has installed SIGHandler
\* runs it, exit(EXIT_SUCCESS); every other process has the default
\* disposition and is killed
\* a handler that returns: the client goes on where it was
SIGHandler_returns(c) == "run"

SIGHandler(c) == "sigexit"

signal_outcome(p) ==
    IF p \in Clients /\ cpc[p] \in ClientHandler THEN SIGHandler(p) ELSE "killed"

\* delivery of the pending SIGUSR1 to process p
Deliver(p) ==
    /\ p \in sigpending /\ Alive(p)
    /\ sigpending' = sigpending \ {p}
    /\ exit_undo(p)
    /\ st' = [st EXCEPT ![p] = signal_outcome(p)]
    /\ UNCHANGED << mpc, wpc, cpc, mi, reaped, wi, scores, frontrunner, winner, client_nr, milestones,
                    ci, c_frontrunner, c_actual, sent, game, shm_exists, mqVars >>

\* ------------------------------------------------------- specifications
MainStep ==
    \/ MainInit \/ MainForkWatchdog \/ MainForkClient \/ MainWait
    \/ MainRemoveMQ \/ MainRemoveSem \/ MainRemoveShm

WdStep ==
    \/ WdReceive \/ WdLock \/ WdWriteFrontrunner \/ WdWriteRunsDone
    \/ WdUnlock \/ WdLoopCond \/ WdKill \/ WdExit

ClStep(c) ==
    \/ ClRegLock(c) \/ ClRegWrite(c) \/ ClRegUnlock(c) \/ ClSigaction(c)
    \/ ClSend(c) \/ ClLock(c) \/ ClRead(c) \/ ClUnlock(c) \/ ClExit(c)

Next ==
    \/ MainInit
    \/ MainForkWatchdog
    \/ MainForkClient
    \/ MainWait
    \/ MainRemoveMQ
    \/ MainRemoveSem
    \/ MainRemoveShm
    \/ WdReceive
    \/ WdLock
    \/ WdWriteFrontrunner
    \/ WdWriteRunsDone
    \/ WdUnlock
    \/ WdLoopCond
    \/ WdKill
    \/ WdExit
    \/ \E c \in Clients : ClRegLock(c)
    \/ \E c \in Clients : ClRegWrite(c)
    \/ \E c \in Clients : ClRegUnlock(c)
    \/ \E c \in Clients : ClSigaction(c)
    \/ \E c \in Clients : ClSend(c)
    \/ \E c \in Clients : ClLock(c)
    \/ \E c \in Clients : ClRead(c)
    \/ \E c \in Clients : ClUnlock(c)
    \/ \E c \in Clients : ClExit(c)
    \/ \E p \in Procs : Deliver(p)

Spec == Init /\ [][Next]_vars

\* every process is scheduled again and again (the processes run in
\* parallel), and a pending signal is delivered
FairSpec ==
    /\ Init /\ [][Next]_vars
    /\ WF_vars(MainStep)
    /\ WF_vars(WdStep)
    /\ \A c \in Clients : WF_vars(ClStep(c))
    /\ \A p \in Procs : WF_vars(Deliver(p))

\* ================================================================ claims
\* the greatest score of a score table
MaxScore(sc) == CHOOSE m \in {sc[c] : c \in Clients} : \A c \in Clients : sc[c] <= m

\* the watchdog consumes a message in this step
Consumes == wpc = "rcv" /\ wpc' = "lock"

\* C1: after every consumed message the watchdog's frontrunner has a maximal
\* score, and it is the previous frontrunner whenever the previous
\* frontrunner's score is still maximal (a tie never displaces the incumbent).
C1_IncumbentKeepsTies ==
    [][Consumes =>
          /\ scores'[frontrunner'] = MaxScore(scores')
          /\ (scores'[frontrunner] = MaxScore(scores') => frontrunner' = frontrunner)
      ]_vars

\* C2: once winner differs from -1, no step changes it.
C2_WinnerImmutable == [][winner # -1 => winner' = winner]_vars

\* the watchdog has recorded a winner and has run to its end
C2_Witness == winner # -1 /\ st[WD] = "exited"

\* C3: a winner is recorded exactly when a score first equals MSGNR: while
\* there is no winner every score is below MSGNR; the recorded winner is the
\* sender of the last message, its score is MSGNR and every other score is
\* below MSGNR.
C3_WinnerFirstAtTarget ==
    /\ winner = -1 => \A c \in Clients : scores[c] < MSGNR
    /\ winner # -1 =>
          /\ winner = client_nr
          /\ scores[winner] = MSGNR
          /\ \A c \in Clients \ {winner} : scores[c] < MSGNR

\* client 1 wins while client 0 is one message short of the target
C3_Witness == winner = 1 /\ scores[0] = MSGNR - 1

\* ------------------------------------------------- positions and the lock
\* the process is blocked in, or about to call, sem_operation(LOCK)
AtLock(p) ==
    /\ Alive(p)
    /\ IF p = WD THEN wpc = "lock"
       ELSE p \in Clients /\ cpc[p] \in {"reg_lock", "lock"}

\* the process is between the return of sem_operation(LOCK) and the return
\* of the matching sem_operation(UNLOCK)
InSection(p) ==
    /\ Alive(p)
    /\ IF p = WD THEN wpc \in {"wr_front", "wr_runs", "unlock"}
       ELSE p \in Clients /\ cpc[p] \in {"reg_write", "reg_unlock", "read", "unlock"}

\* the next step of the process reads or writes a field of SMgame
Accesses(p) ==
    /\ Runs(p)
    /\ IF p = MAIN THEN mpc = "init"
       ELSE IF p = WD THEN wpc \in {"wr_front", "wr_runs", "cond", "kill"}
       ELSE cpc[p] \in {"reg_write", "read"}

\* the process has decremented the semaphore and not incremented it since
HoldsLock(p) == sem_exists /\ semadj[p] = 1

\* C4: every run reaches a terminal watchdog state.  A watchdog that has
\* ended takes no further step, so the claim requires: a watchdog that has
\* ended has recorded a winner or has counted MAXRUNS messages.
C4_EndsTerminal ==
    Ended(WD) => (winner # -1 \/ game.runs_done >= MAXRUNS)

\* C5: a process whose next step reads or writes SMgame holds the lock.
C5_AccessUnderLock == \A p \in Procs : Accesses(p) => HoldsLock(p)

\* C6: at most one process is between a completed sem_operation(LOCK) and
\* the matching sem_operation(UNLOCK), and the semaphore value is 0 or 1.
C6_OneInSection ==
    /\ Cardinality({p \in Procs : InSection(p)}) <= 1
    /\ semval \in {0, 1}

\* C7: a process whose sem_operation failed has exited with failure, before
\* any further access of SMgame and before the matching release.
C7_SemFailureFatal == \A p \in Procs : semret[p] = -1 => st[p] = "failed"

\* C9: when the watchdog is in its kill loop, every clientpids slot holds
\* the pid of its client.
C9_AllRegisteredAtBroadcast ==
    (wpc = "kill" /\ st[WD] # "unborn") =>
        \A c \in Clients : game.clientpids[c] = getpid(c)

\* the process decremented the semaphore with its last sem_operation(LOCK)
\* and has not yet returned from the matching sem_operation(UNLOCK)
Acquired(p) == InSection(p) /\ semret[p] = 1

\* C8: SEM_UNDO gives the semaphore back when its holder ends: while the
\* semaphore exists its value is 1 unless a live process has acquired it,
\* and then it is 0; and no process stays at sem_operation(LOCK) forever.
C8_UndoKeepsLockLive ==
    /\ [](sem_exists =>
            semval = 1 - Cardinality({p \in Procs : Acquired(p)}))
    /\ \A p \in Procs : AtLock(p) ~> ~AtLock(p)

\* a client was ended by the signal inside its critical section, and
\* another process has acquired the semaphore since
C8_Witness ==
    \E c \in Clients :
        /\ st[c] \in {"sigexit", "killed"}
        /\ cpc[c] \in {"reg_write", "reg_unlock", "read", "unlock"}
        /\ semret[c] = 1
        /\ \E q \in Procs \ {c} : Acquired(q) /\ HoldsLock(q)

\* the watchdog has made all MAXCLIENTS kill calls
BroadcastDone == st[WD] # "unborn" /\ wi = MAXCLIENTS

\* C10: once the kill loop is complete, no client runs on (every client
\* still alive has the signal pending), and eventually every client that
\* was ever forked has ended; main, once signalled, forks no further client.
C10_AllEndAfterBroadcast ==
    /\ [](BroadcastDone => \A c \in Clients : Alive(c) => c \in sigpending)
    /\ BroadcastDone ~>
          \A c \in Clients : Ended(c) \/ (st[c] = "unborn" /\ ~Runs(MAIN))

\* the broadcast is complete and has ended one client that waited in msgsnd
\* on a full queue and one client inside its critical section
C10_Witness ==
    /\ BroadcastDone
    /\ \A c \in Clients : Ended(c)
    /\ \E c \in Clients :
          st[c] = "sigexit" /\ cpc[c] = "send" /\ mq_exists /\ Len(mq) = MaxQueue
    /\ \E c \in Clients : st[c] = "sigexit" /\ cpc[c] \in {"lock", "read", "unlock"}

\* client c has written its pid into clientpids[c]
Registered(c) == game.clientpids[c] = getpid(c)

\* C11: SIGUSR1 delivered to a client whose pid is in clientpids makes the
\* client exit through SIGHandler: no registered client is ended by the
\* signal's default action.
C11_SignalExitsThroughHandler ==
    \A c \in Clients : Registered(c) => st[c] # "killed"

\* C12: runs_done never exceeds MAXRUNS, and every step leaves it unchanged
\* or adds exactly one to it.
C12_RunsDoneCountsUp ==
    /\ [](game.runs_done <= MAXRUNS)
    /\ [][game'.runs_done \in {game.runs_done, game.runs_done + 1}]_vars

\* the count has passed what one client alone can send
C12_Witness == game.runs_done > MSGNR

\* C13: main removes the queue, the semaphore and the shared memory only
\* after the watchdog and every client have ended.
C13_RemoveAfterChildrenEnded ==
    (~mq_exists \/ ~sem_exists \/ ~shm_exists)
        => \A p \in Clients \cup {WD} : Ended(p)

\* msgsnd calls client c has made: one per finished iteration and one more
\* while c is in the else-branch of the current iteration
Attempts(c) ==
    ci[c] + (IF cpc[c] \in {"lock", "read", "unlock"} THEN 1 ELSE 0)

\* messages of client c waiting in WatchdogMQ
InQueue(c) ==
    Cardinality({k \in 1 .. Len(mq) : StrToInt(mq[k].data) = c})

\* a step in which client c's msgsnd fails
FailedSend(c) ==
    /\ cpc[c] = "send" /\ ~mq_exists
    /\ st[c] = "run" /\ c \notin sigpending
    /\ << cpc[c], ci[c] >>' # << cpc[c], ci[c] >>

\* C14: a client makes at most MSGNR msgsnd calls, the watchdog's score of
\* a client never exceeds the client's successful sends, and a failed
\* msgsnd leaves the client running, takes it to the next iteration without
\* a frontrunner read and leaves the shared memory as it was.
C14_FailedSendSkipsIteration ==
    /\ [](\A c \in Clients :
            /\ Attempts(c) <= MSGNR
            /\ sent[c] <= Attempts(c)
            /\ scores[c] + InQueue(c) <= sent[c])
    /\ [][\A c \in Clients : FailedSend(c) =>
            /\ st'[c] = "run"
            /\ ci'[c] = ci[c] + 1
            /\ cpc'[c] \in {"send", "ret"}
            /\ sent'[c] = sent[c]
            /\ c_actual'[c] = c_actual[c]
            /\ game' = game]_vars

\* a client has returned from client_code although a msgsnd of it failed
C14_Witness ==
    \E c \in Clients : st[c] = "exited" /\ ci[c] = MSGNR /\ sent[c] < MSGNR

\* C15: the kill loop calls kill for each of the MAXCLIENTS entries of
\* clientpids exactly once: a watchdog that has entered the loop and has
\* ended has gone through all entries.
C15_KillLoopCoversAllEntries ==
    (wpc \in {"kill", "ret"} /\ Ended(WD)) => wi = MAXCLIENTS

\* processes that SIGUSR1 has been sent to
Signalled == sigpending \cup {p \in Procs : st[p] \in {"sigexit", "killed"}}

\* C16: the kill loop sends SIGUSR1 to registered clients only, never to
\* the watchdog, to main or to a client that has not registered.
C16_SignalOnlyToRegistered ==
    Signalled \subseteq {c \in Clients : Registered(c)}

\* C17: only the watchdog changes frontrunner and runs_done; clientpids is
\* changed only by a client writing its own pid into its own slot, once,
\* after a successful sem_operation(LOCK), before its first msgsnd.
C17_ClientWritesOwnSlotOnly ==
    [][/\ (game'.frontrunner # game.frontrunner
            \/ game'.runs_done # game.runs_done)
           => (wpc' # wpc /\ cpc' = cpc /\ mpc' = mpc)
       /\ game'.clientpids # game.clientpids
           => \E c \in Clients :
                 /\ cpc[c] = "reg_write" /\ cpc'[c] = "reg_unlock"
                 /\ game.clientpids[c] = 0
                 /\ game'.clientpids =
                        [game.clientpids EXCEPT ![c] = getpid(c)]
                 /\ Attempts(c) = 0
                 /\ semret[c] = 1]_vars

\* the sum of the first n entries of an array indexed from 0
RECURSIVE SumTo(_, _)
SumTo(f, n) == IF n = 0 THEN 0 ELSE f[n - 1] + SumTo(f, n - 1)

\* the watchdog is not between msgrcv and the end of its critical section
BetweenMessages == wpc \in {"rcv", "cond", "kill", "ret"}

\* C18: between two messages runs_done equals the sum of the scores, which
\* is the number of messages taken from the queue, and the frontrunner in
\* shared memory equals the watchdog's local frontrunner; a client holding
\* the semaphore never finds the watchdog between its two writes.
C18_SharedMirrorsTally ==
    /\ BetweenMessages =>
          /\ game.runs_done = SumTo(scores, MAXCLIENTS)
          /\ game.frontrunner = frontrunner
    /\ mq_exists =>
          SumTo(scores, MAXCLIENTS) = SumTo(sent, MAXCLIENTS) - Len(mq)
    /\ \A c \in Clients : HoldsLock(c) => wpc # "wr_runs"

\* the watchdog has published a frontrunner other than the initial one
C18_Witness ==
    /\ wpc = "cond" /\ Alive(WD)
    /\ game.frontrunner = 1 /\ game.runs_done >= 2

\* C19: for each number of points at most one "first to get to" line is
\* printed, and the client it names is the first whose score reached that
\* number: no other client had that many points before.
C19_MilestoneOnceForFirst ==
    /\ [](\A e1, e2 \in milestones :
            e1.points = e2.points => e1.client = e2.client)
    /\ [][\A e \in milestones' \ milestones :
            \A d \in Clients \ {e.client} : scores[d] < e.points]_vars

\* C20: the watchdog enters the kill loop only with a winner; runs_done
\* never exceeds MSGNR + (MAXCLIENTS - 1) * (MSGNR - 1), which for two or
\* more clients is less than MAXRUNS.
C20_BroadcastHasWinner ==
    /\ wpc \in {"kill", "ret"} => winner # -1
    /\ game.runs_done <= MSGNR + (MAXCLIENTS - 1) * (MSGNR - 1)
    /\ MAXCLIENTS >= 2 => game.runs_done < MAXRUNS

\* the loop is left with every loser one message short of the target
C20_Witness ==
    /\ wpc = "kill" /\ winner # -1
    /\ game.runs_done = MSGNR + (MAXCLIENTS - 1) * (MSGNR - 1)

====
